---------------------------- MODULE Spec2Model ----------------------------
(***************************************************************************)
(* Model of the Conan Center Index command extensions                      *)
(*   extensions/commands/cci/cmd_missing_binaries.py                       *)
(*   extensions/commands/cci/cmd_conflicts.py                              *)
(*   extensions/commands/cci/cmd_promote_conan2.py                         *)
(* The host package manager (graph loading, binary analysis, install       *)
(* graphs, sub-commands) is the environment: each call into it is a        *)
(* nondeterministic choice among the results it can give.                  *)
(***************************************************************************)
EXTENDS Integers, Sequences, FiniteSets, TLC

VARIABLES
    pc,                    \* position of the running command
    args,                  \* parsed command line arguments
    profile_map,           \* profile_map['profiles'], a list of dicts
    exported_list,         \* references exported to the cache
    missing_packages,      \* ordered dict: list of [key, value] items
    references,            \* references in the order the loops visit them
    ri,                    \* index of the reference being processed
    profiles,              \* expand_profiles(...) of the current reference
    pi,                    \* index of the profile being processed
    ci,                    \* index of the cppstd being processed
    continue_reference,    \* loop flag of generate_missing_packages
    continue_group,        \* loop flag of generate_conflicts
    merged_install_graph,  \* accumulator of generate_build_order
    conflicts,             \* result dict of generate_conflicts
    result,                \* value returned by the command / function
    files,                 \* names of the files written so far
    expanded,              \* results of the two expand_profiles copies
    recipes,               \* sorted(os.listdir(args.path)) of promote_conan2
    tmp,                   \* temporary folder of promote_conan2
    local_cache,           \* number of recipes in the local cache at the start
    ran,                   \* history: host calls and steps performed, in order
    evaluated,             \* history: evaluations of the current profile
    loaded                 \* history: graphs requested for the current reference

vars == <<pc, args, profile_map, exported_list, missing_packages, references,
          ri, profiles, pi, ci, continue_reference, continue_group,
          merged_install_graph, conflicts, result, files, expanded, recipes,
          tmp, local_cache, ran, evaluated, loaded>>

loopVars == <<references, ri, profiles, pi, ci>>

envVars == <<tmp, local_cache>>

pureVars == <<expanded, recipes, envVars>>

-----------------------------------------------------------------------------
(* Bounds of the model *)

MaxRefs == 2

MaxProfiles == 1

MaxExpandProfiles == 2

MaxCppstd == 2

MaxRecipes == 3

MaxConflicts == 2

-----------------------------------------------------------------------------
(* Python values *)

None == [none |-> TRUE]

EmptyDict == [k \in {} |-> k]

\* dict.setdefault(k, v): the dict after the call
setdefault(d, k, v) == IF k \in DOMAIN d THEN d ELSE d @@ (k :> v)

\* dict.get(k, default)
get(d, k, default) == IF k \in DOMAIN d THEN d[k] ELSE default

\* d.setdefault(k, []).append(v) on a dict of lists
setdefault_append(d, k, v) ==
    [j \in (DOMAIN d) \cup {k} |-> IF j = k THEN Append(get(d, k, <<>>), v) ELSE d[j]]

Range(s) == {s[i] : i \in DOMAIN s}

\* all sequences without repetition, of length at most n, over the set S
RECURSIVE DistinctSeqs(_, _)
DistinctSeqs(S, n) ==
    IF n = 0 THEN {<<>>}
    ELSE LET shorter == DistinctSeqs(S, n - 1)
         IN  shorter \cup
             UNION {{Append(s, x) : x \in S \ Range(s)} :
                    s \in {t \in shorter : Len(t) = n - 1}}

\* all subsequences of the sequence s, of length at most n
RECURSIVE SubSeqs(_, _)
SubSeqs(s, n) ==
    IF s = <<>> THEN {<<>>}
    ELSE LET rest == SubSeqs(Tail(s), n)
         IN  rest \cup {<<Head(s)>> \o t : t \in {r \in rest : Len(r) < n}}

\* an insertion-ordered dict is the list of its [key, value] items
keys(d) == [i \in DOMAIN d |-> d[i][1]]

\* d.setdefault(k, []).append(v) on an insertion-ordered dict of lists
od_setdefault_append(d, k, v) ==
    IF \E i \in DOMAIN d : d[i][1] = k
    THEN [i \in DOMAIN d |->
             IF d[i][1] = k THEN <<k, Append(d[i][2], v)>> ELSE d[i]]
    ELSE Append(d, <<k, <<v>>>>)

-----------------------------------------------------------------------------
(* The recipes of the index and what inspecting them reports *)

Reference(name, version) == [name |-> name, version |-> version]

\* the recipes of the index, in the order they are exported
AllReferences ==
    <<Reference("zlib", "1.2"), Reference("fmt", "10.0"),
      Reference("zlib", "1.3"), Reference("eigen", "3.4")>>

\* the lists of references a run can meet: at most MaxRefs of them
ReferenceLists == SubSeqs(AllReferences, MaxRefs)

\* conanfile.options.get_safe("header_only", None) is not None
has_header_option(reference) == reference.name \in {"fmt", "eigen"}

\* conanfile.options.get_safe("shared", None) is not None
has_shared_option(reference) ==
    reference \in {Reference("zlib", "1.2"), Reference("fmt", "10.0")}

\* str(reference): "name/version", as the list of its pieces
str(reference) == <<reference.name, "/", reference.version>>

\* ref.split("/")
RECURSIVE split(_)
split(s) ==
    IF s = <<>> THEN <<>>
    ELSE IF Head(s) = "/" THEN split(Tail(s))
    ELSE <<Head(s)>> \o split(Tail(s))

\* RecipeReference(*ref.split("/"))
RecipeReference(parts) == Reference(parts[1], parts[2])

-----------------------------------------------------------------------------
(* Profile maps *)

HostProfiles == <<"linux-gcc", "windows-msvc", "macos-clang", "android-clang">>

CppstdValues == <<"14", "17", "20", "23">>

CppstdLists == {SubSeq(CppstdValues, 1, n) : n \in 0..MaxCppstd}

ExtraKeys ==
    {EmptyDict,
     [host_options |-> <<"zlib/*:fPIC=True">>],
     [host_conf |-> <<"tools.build:jobs=4">>]}

BaseProfile(i, cppstd, extra) ==
    [host_profile |-> HostProfiles[i], build_profile |-> "linux-gcc",
     cppstd |-> cppstd] @@ extra

\* the lists a profiles map file can hold: at most max base profiles
ProfileMaps(extras, max) ==
    UNION {[1..n -> CppstdLists \X extras] : n \in 0..max}

MakeProfileMap(choice) ==
    [i \in DOMAIN choice |-> BaseProfile(i, choice[i][1], choice[i][2])]

-----------------------------------------------------------------------------
(* expand_profiles, cmd_missing_binaries.py *)

\* expand_profile_info with the header_only=True profile copied from
\* shared_profile_info instead of profile_info
expand_profile_info_header_from_shared(original_profile_info, has_shared, has_header) ==
    LET profile_info ==
            setdefault(setdefault(original_profile_info, "host_conf", <<>>),
                       "build_conf", <<>>)
        append_option(info, option) ==
            [setdefault(info, "host_options", <<>>) EXCEPT
                !["host_options"] = Append(@, option)]
        shared_profile_info ==
            IF has_header THEN append_option(profile_info, "&:header_only=False")
            ELSE profile_info
        new_profile_shared == append_option(shared_profile_info, "*:shared=True")
        new_profile_static == append_option(shared_profile_info, "*:shared=False")
        new_profile_header == append_option(shared_profile_info, "&:header_only=True")
    IN  (IF has_shared THEN <<new_profile_shared, new_profile_static>> ELSE <<>>)
        \o (IF has_header THEN <<new_profile_header>> ELSE <<>>)
        \o (IF ~has_shared /\ ~has_header THEN <<profile_info>> ELSE <<>>)

\* the body of the loop over profile_map['profiles'], for one base profile
expand_profile_info(original_profile_info, has_shared, has_header) ==
    LET profile_info ==
            setdefault(setdefault(original_profile_info, "host_conf", <<>>),
                       "build_conf", <<>>)
        append_option(info, option) ==
            [setdefault(info, "host_options", <<>>) EXCEPT
                !["host_options"] = Append(@, option)]
        shared_profile_info ==
            IF has_header THEN append_option(profile_info, "&:header_only=False")
            ELSE profile_info
        new_profile_shared == append_option(shared_profile_info, "*:shared=True")
        new_profile_static == append_option(shared_profile_info, "*:shared=False")
        new_profile_header == append_option(profile_info, "&:header_only=True")
    IN  (IF has_shared THEN <<new_profile_shared, new_profile_static>> ELSE <<>>)
        \o (IF has_header THEN <<new_profile_header>> ELSE <<>>)
        \o (IF ~has_shared /\ ~has_header THEN <<profile_info>> ELSE <<>>)

RECURSIVE expand_profiles_loop(_, _, _)
expand_profiles_loop(list, has_shared, has_header) ==
    IF list = <<>> THEN <<>>
    ELSE expand_profile_info(Head(list), has_shared, has_header)
         \o expand_profiles_loop(Tail(list), has_shared, has_header)

expand_profiles(reference, map) ==
    expand_profiles_loop(map, has_shared_option(reference),
                         has_header_option(reference))

(* expand_profiles, cmd_conflicts.py *)

conflicts_expand_profile_info(original_profile_info, has_shared, has_header) ==
    LET profile_info ==
            setdefault(setdefault(original_profile_info, "host_conf", <<>>),
                       "build_conf", <<>>)
        append_option(info, option) ==
            [setdefault(info, "host_options", <<>>) EXCEPT
                !["host_options"] = Append(@, option)]
        shared_profile_info ==
            IF has_header THEN append_option(profile_info, "&:header_only=False")
            ELSE profile_info
        new_profile_shared == append_option(shared_profile_info, "*:shared=True")
        new_profile_static == append_option(shared_profile_info, "*:shared=False")
        new_profile_header == append_option(profile_info, "&:header_only=True")
    IN  (IF has_shared THEN <<new_profile_shared, new_profile_static>> ELSE <<>>)
        \o (IF has_header THEN <<new_profile_header>> ELSE <<>>)
        \o (IF ~has_shared /\ ~has_header THEN <<profile_info>> ELSE <<>>)

RECURSIVE conflicts_expand_profiles_loop(_, _, _)
conflicts_expand_profiles_loop(list, has_shared, has_header) ==
    IF list = <<>> THEN <<>>
    ELSE conflicts_expand_profile_info(Head(list), has_shared, has_header)
         \o conflicts_expand_profiles_loop(Tail(list), has_shared, has_header)

conflicts_expand_profiles(reference, map) ==
    conflicts_expand_profiles_loop(map, has_shared_option(reference),
                                   has_header_option(reference))

-----------------------------------------------------------------------------
(* What the host package manager can answer *)

\* load_graph_requires / report_graph_error / analyze_binaries raise ("raise"),
\* or the analysis ends with deps_graph.nodes[1].binary set
Outcomes == {"raise", "Invalid", "Missing", "Cache"}

\* InstallGraph(deps_graph, order_by="recipe"): the recipes it holds
InstallGraph(reference) == [none |-> FALSE, nodes |-> {reference}]

\* merged_install_graph.merge(new_install_graph)
merge(graph, new_install_graph) ==
    [none |-> FALSE, nodes |-> graph.nodes \cup new_install_graph.nodes]

\* merged_install_graph.reduce(); merged_install_graph.install_build_order()
install_build_order(graph) == [order |-> graph.nodes]

\* grouped_references: the references grouped by name, groups in the order of
\* first appearance, each group in list order; flattened in iteration order
RECURSIVE group_references(_)
group_references(list) ==
    IF list = <<>> THEN <<>>
    ELSE SelectSeq(list, LAMBDA r : r.name = Head(list).name)
         \o group_references(SelectSeq(list, LAMBDA r : r.name # Head(list).name))

\* [RecipeReference(*ref.split("/")) for ref in ...]
parse_references(strings) ==
    [i \in DOMAIN strings |-> RecipeReference(split(strings[i]))]

BuildOrderFile == "missing_packages_build_order_global.json"

NoResult == [kind |-> "none"]

Return(value) == [kind |-> "return", value |-> value]

Raise(exception) == [kind |-> "raise", exception |-> exception]

-----------------------------------------------------------------------------
(* missing_binaries *)

\* the files --missing-packages can name: dicts keyed by "name/version"
MissingPackagesFiles ==
    {[i \in DOMAIN refs |-> <<str(refs[i]), <<<<"linux-gcc", "linux-gcc", "17">>>>>>] :
        refs \in ReferenceLists}

InitMissing ==
    /\ pc = "start"
    /\ args \in [missing_packages : {None, [path |-> "missing.json"]},
                 generate_build_order : BOOLEAN]
    /\ profile_map \in {MakeProfileMap(c) : c \in ProfileMaps({EmptyDict}, MaxProfiles)}
    /\ exported_list = <<>>
    /\ missing_packages = <<>>
    /\ references = <<>>
    /\ ri = 1
    /\ profiles = <<>>
    /\ pi = 1
    /\ ci = 1
    /\ continue_reference = TRUE
    /\ continue_group = TRUE
    /\ merged_install_graph = None
    /\ conflicts = EmptyDict
    /\ result = NoResult
    /\ files = EmptyDict
    /\ expanded = EmptyDict
    /\ recipes = <<>>
    /\ tmp = ""
    /\ local_cache \in {0, 1}
    /\ ran = <<>>
    /\ evaluated = <<>>
    /\ loaded = {}

\* MbListCache with the emptiness check switched off
MbListCacheUnchecked ==
    /\ pc = "start"
    /\ args.missing_packages = None
    /\ pc' = "export"
    /\ ran' = Append(ran, "list")
    /\ UNCHANGED <<args, profile_map, exported_list, missing_packages, loopVars,
                   continue_reference, continue_group, merged_install_graph,
                   conflicts, result, files, pureVars, evaluated, loaded>>

\* lines 44-49: list the cache, fail unless it is empty
MbListCache ==
    /\ pc = "start"
    /\ args.missing_packages = None
    /\ IF local_cache # 0
       THEN /\ pc' = "raised"
            /\ result' = Raise("ConanException")
       ELSE /\ pc' = "export"
            /\ UNCHANGED result
    /\ ran' = Append(ran, "list")
    /\ UNCHANGED <<args, profile_map, exported_list, missing_packages, loopVars,
                   continue_reference, continue_group, merged_install_graph,
                   conflicts, files, pureVars, evaluated, loaded>>

\* lines 51-59: export every version and parse what was exported
MbExport ==
    /\ pc = "export"
    /\ \E exported \in ReferenceLists :
          exported_list' = parse_references([i \in DOMAIN exported |-> str(exported[i])])
    /\ ran' = Append(ran, "export")
    /\ pc' = "gmp_call"
    /\ UNCHANGED <<args, profile_map, missing_packages, loopVars,
                   continue_reference, continue_group, merged_install_graph,
                   conflicts, result, files, pureVars, evaluated, loaded>>

\* MbLoadMissingPackages with the cache listed before the branch
MbLoadMissingPackagesAfterList ==
    /\ pc = "start"
    /\ args.missing_packages # None
    /\ \E content \in MissingPackagesFiles : missing_packages' = content
    /\ ran' = ran \o <<"list", "open_missing_packages">>
    /\ pc' = "decide"
    /\ UNCHANGED <<args, profile_map, exported_list, loopVars,
                   continue_reference, continue_group, merged_install_graph,
                   conflicts, result, files, pureVars, evaluated, loaded>>

\* lines 62-64: read the missing packages from the file
MbLoadMissingPackages ==
    /\ pc = "start"
    /\ args.missing_packages # None
    /\ \E content \in MissingPackagesFiles : missing_packages' = content
    /\ ran' = Append(ran, "open_missing_packages")
    /\ pc' = "decide"
    /\ UNCHANGED <<args, profile_map, exported_list, loopVars,
                   continue_reference, continue_group, merged_install_graph,
                   conflicts, result, files, pureVars, evaluated, loaded>>

\* lines 66-75, up to the call of generate_build_order
MbDecide ==
    /\ pc = "decide"
    /\ IF missing_packages = <<>>
       THEN /\ pc' = "done"
            /\ result' = Return(<<>>)
       ELSE IF args.generate_build_order
       THEN /\ pc' = "gbo_call"
            /\ UNCHANGED result
       ELSE /\ pc' = "done"
            /\ result' = Return(missing_packages)
    /\ UNCHANGED <<args, profile_map, exported_list, missing_packages, loopVars,
                   continue_reference, continue_group, merged_install_graph,
                   conflicts, files, pureVars, ran, evaluated, loaded>>

-----------------------------------------------------------------------------
(* generate_missing_packages *)

\* lines 78-86: group the references
GmpStart ==
    /\ pc = "gmp_call"
    /\ missing_packages' = <<>>
    /\ references' = group_references(exported_list)
    /\ ri' = 1
    /\ ran' = Append(ran, "generate_missing_packages")
    /\ pc' = "gmp_reference"
    /\ UNCHANGED <<args, profile_map, exported_list, profiles, pi, ci,
                   continue_reference, continue_group, merged_install_graph,
                   conflicts, result, files, pureVars, evaluated, loaded>>

\* lines 89-91: next reference, its profiles expanded
GmpStartReference ==
    /\ pc = "gmp_reference"
    /\ ri <= Len(references)
    /\ profiles' = expand_profiles(references[ri], profile_map)
    /\ continue_reference' = TRUE
    /\ pi' = 1
    /\ evaluated' = <<>>
    /\ loaded' = {}
    /\ pc' = "gmp_profile"
    /\ UNCHANGED <<args, profile_map, exported_list, missing_packages,
                   references, ri, ci, continue_group, merged_install_graph,
                   conflicts, result, files, pureVars, ran>>

\* lines 92-104: next profile of the reference
GmpStartProfile ==
    /\ pc = "gmp_profile"
    /\ pi <= Len(profiles)
    /\ continue_reference
    /\ ci' = 1
    /\ evaluated' = <<>>
    /\ pc' = "gmp_cppstd"
    /\ UNCHANGED <<args, profile_map, exported_list, missing_packages,
                   references, ri, profiles, pi, continue_reference,
                   continue_group, merged_install_graph, conflicts, result,
                   files, pureVars, ran, loaded>>

\* lines 92-94: the profiles are exhausted, or continue_reference is off
GmpEndReference ==
    /\ pc = "gmp_profile"
    /\ pi > Len(profiles) \/ ~continue_reference
    /\ ri' = ri + 1
    /\ pc' = "gmp_reference"
    /\ UNCHANGED <<args, profile_map, exported_list, missing_packages,
                   references, profiles, pi, ci, continue_reference,
                   continue_group, merged_install_graph, conflicts, result,
                   files, pureVars, ran, evaluated, loaded>>

\* GmpEvaluate with continue_reference switched off by every valid result
GmpEvaluateStopOnAny ==
    /\ pc = "gmp_cppstd"
    /\ ci <= Len(profiles[pi]["cppstd"])
    /\ \E outcome \in Outcomes :
          LET reference == references[ri]
              host_profile == profiles[pi]["host_profile"]
              build_profile == profiles[pi]["build_profile"]
              cppstd == profiles[pi]["cppstd"][ci]
          IN  /\ evaluated' = Append(evaluated, <<cppstd, outcome>>)
              /\ loaded' = loaded \cup {[profile |-> pi, missing |-> outcome = "Missing"]}
              /\ IF outcome \in {"raise", "Invalid"}
                 THEN /\ ci' = ci + 1
                      /\ UNCHANGED <<pc, pi, missing_packages, continue_reference>>
                 ELSE /\ IF outcome = "Missing"
                         THEN missing_packages' =
                                    od_setdefault_append(missing_packages,
                                        str(reference),
                                        <<host_profile, build_profile, cppstd>>)
                         ELSE UNCHANGED missing_packages
                      /\ continue_reference' = FALSE
                      /\ pi' = pi + 1
                      /\ pc' = "gmp_profile"
                      /\ UNCHANGED ci
    /\ UNCHANGED <<args, profile_map, exported_list, references, ri, profiles,
                   continue_group, merged_install_graph, conflicts, result,
                   files, pureVars, ran>>

\* lines 105-146: one cppstd of the profile is evaluated
GmpEvaluate ==
    /\ pc = "gmp_cppstd"
    /\ ci <= Len(profiles[pi]["cppstd"])
    /\ \E outcome \in Outcomes :
          LET reference == references[ri]
              host_profile == profiles[pi]["host_profile"]
              build_profile == profiles[pi]["build_profile"]
              cppstd == profiles[pi]["cppstd"][ci]
          IN  /\ evaluated' = Append(evaluated, <<cppstd, outcome>>)
              /\ loaded' = loaded \cup {[profile |-> pi, missing |-> outcome = "Missing"]}
              /\ IF outcome \in {"raise", "Invalid"}
                 THEN /\ ci' = ci + 1
                      /\ UNCHANGED <<pc, pi, missing_packages, continue_reference>>
                 ELSE /\ IF outcome = "Missing"
                         THEN /\ missing_packages' =
                                    od_setdefault_append(missing_packages,
                                        str(reference),
                                        <<host_profile, build_profile, cppstd>>)
                              /\ continue_reference' = FALSE
                         ELSE UNCHANGED <<missing_packages, continue_reference>>
                      /\ pi' = pi + 1
                      /\ pc' = "gmp_profile"
                      /\ UNCHANGED ci
    /\ UNCHANGED <<args, profile_map, exported_list, references, ri, profiles,
                   continue_group, merged_install_graph, conflicts, result,
                   files, pureVars, ran>>

\* line 105: the cppstd values are exhausted
GmpEndProfile ==
    /\ pc = "gmp_cppstd"
    /\ ci > Len(profiles[pi]["cppstd"])
    /\ pi' = pi + 1
    /\ pc' = "gmp_profile"
    /\ UNCHANGED <<args, profile_map, exported_list, missing_packages,
                   references, ri, profiles, ci, continue_reference,
                   continue_group, merged_install_graph, conflicts, result,
                   files, pureVars, ran, evaluated, loaded>>

\* line 147 and line 61: the result becomes the command's missing_packages
GmpReturn ==
    /\ pc = "gmp_reference"
    /\ ri > Len(references)
    /\ pc' = "decide"
    /\ UNCHANGED <<args, profile_map, exported_list, missing_packages, loopVars,
                   continue_reference, continue_group, merged_install_graph,
                   conflicts, result, files, pureVars, ran, evaluated, loaded>>

-----------------------------------------------------------------------------
(* generate_build_order *)

\* lines 150-159: parse the keys of missing_packages and group them
GboStart ==
    /\ pc = "gbo_call"
    /\ merged_install_graph' = None
    /\ references' = group_references(parse_references(keys(missing_packages)))
    /\ ri' = 1
    /\ evaluated' = <<>>
    /\ loaded' = {}
    /\ ran' = Append(ran, "generate_build_order")
    /\ pc' = "gbo_reference"
    /\ UNCHANGED <<args, profile_map, exported_list, missing_packages, profiles,
                   pi, ci, continue_reference, continue_group, conflicts,
                   result, files, pureVars>>

\* lines 162-163
GboStartReference ==
    /\ pc = "gbo_reference"
    /\ ri <= Len(references)
    /\ profiles' = expand_profiles(references[ri], profile_map)
    /\ pi' = 1
    /\ evaluated' = <<>>
    /\ pc' = "gbo_profile"
    /\ UNCHANGED <<args, profile_map, exported_list, missing_packages,
                   references, ri, ci, continue_reference, continue_group,
                   merged_install_graph, conflicts, result, files, pureVars,
                   ran, loaded>>

\* lines 165-175
GboStartProfile ==
    /\ pc = "gbo_profile"
    /\ pi <= Len(profiles)
    /\ ci' = 1
    /\ evaluated' = <<>>
    /\ pc' = "gbo_cppstd"
    /\ UNCHANGED <<args, profile_map, exported_list, missing_packages,
                   references, ri, profiles, pi, continue_reference,
                   continue_group, merged_install_graph, conflicts, result,
                   files, pureVars, ran, loaded>>

\* line 165: the profiles are exhausted
GboEndReference ==
    /\ pc = "gbo_profile"
    /\ pi > Len(profiles)
    /\ ri' = ri + 1
    /\ pc' = "gbo_reference"
    /\ UNCHANGED <<args, profile_map, exported_list, missing_packages,
                   references, profiles, pi, ci, continue_reference,
                   continue_group, merged_install_graph, conflicts, result,
                   files, pureVars, ran, evaluated, loaded>>

\* GboEvaluate without the break after a merged install graph
GboEvaluateNoBreak ==
    /\ pc = "gbo_cppstd"
    /\ ci <= Len(profiles[pi]["cppstd"])
    /\ \E outcome \in Outcomes :
          LET reference == references[ri]
              cppstd == profiles[pi]["cppstd"][ci]
              new_install_graph == InstallGraph(reference)
          IN  /\ evaluated' = Append(evaluated, <<cppstd, outcome>>)
              /\ merged_install_graph' =
                    IF outcome \in {"raise", "Invalid"} THEN merged_install_graph
                    ELSE IF merged_install_graph = None THEN new_install_graph
                    ELSE merge(merged_install_graph, new_install_graph)
    /\ ci' = ci + 1
    /\ UNCHANGED <<args, profile_map, exported_list, missing_packages,
                   references, ri, profiles, pi, pc, continue_reference,
                   continue_group, conflicts, result, files, pureVars, ran,
                   loaded>>

\* lines 176-218: one cppstd of the profile is evaluated
GboEvaluate ==
    /\ pc = "gbo_cppstd"
    /\ ci <= Len(profiles[pi]["cppstd"])
    /\ \E outcome \in Outcomes :
          LET reference == references[ri]
              cppstd == profiles[pi]["cppstd"][ci]
              new_install_graph == InstallGraph(reference)
          IN  /\ evaluated' = Append(evaluated, <<cppstd, outcome>>)
              /\ IF outcome \in {"raise", "Invalid"}
                 THEN /\ ci' = ci + 1
                      /\ UNCHANGED <<pc, pi, merged_install_graph>>
                 ELSE /\ merged_install_graph' =
                            IF merged_install_graph = None
                            THEN new_install_graph
                            ELSE merge(merged_install_graph, new_install_graph)
                      /\ pi' = pi + 1
                      /\ pc' = "gbo_profile"
                      /\ UNCHANGED ci
    /\ UNCHANGED <<args, profile_map, exported_list, missing_packages,
                   references, ri, profiles, continue_reference, continue_group,
                   conflicts, result, files, pureVars, ran, loaded>>

\* line 176: the cppstd values are exhausted
GboEndProfile ==
    /\ pc = "gbo_cppstd"
    /\ ci > Len(profiles[pi]["cppstd"])
    /\ pi' = pi + 1
    /\ pc' = "gbo_profile"
    /\ UNCHANGED <<args, profile_map, exported_list, missing_packages,
                   references, ri, profiles, ci, continue_reference,
                   continue_group, merged_install_graph, conflicts, result,
                   files, pureVars, ran, evaluated, loaded>>

\* lines 219-220, then lines 72-75 of missing_binaries: None has no reduce(),
\* so an accumulator that is still None ends the command with AttributeError
GboFinish ==
    /\ pc = "gbo_reference"
    /\ ri > Len(references)
    /\ IF merged_install_graph = None
       THEN /\ pc' = "raised"
            /\ result' = Raise("AttributeError")
            /\ UNCHANGED <<files, ran>>
       ELSE /\ files' = (BuildOrderFile :> install_build_order(merged_install_graph))
                        @@ files
            /\ ran' = Append(ran, "write_build_order")
            /\ result' = Return(missing_packages)
            /\ pc' = "done"
    /\ UNCHANGED <<args, profile_map, exported_list, missing_packages, loopVars,
                   continue_reference, continue_group, merged_install_graph,
                   conflicts, pureVars, evaluated, loaded>>

NextMissing ==
    \/ MbListCache
    \/ MbExport
    \/ MbLoadMissingPackages
    \/ GmpStart
    \/ GmpStartReference
    \/ GmpStartProfile
    \/ GmpEvaluate
    \/ GmpEndProfile
    \/ GmpEndReference
    \/ GmpReturn
    \/ MbDecide
    \/ GboStart
    \/ GboStartReference
    \/ GboStartProfile
    \/ GboEvaluate
    \/ GboEndProfile
    \/ GboEndReference
    \/ GboFinish

SpecMissing == InitMissing /\ [][NextMissing]_vars

-----------------------------------------------------------------------------
(* generate_conflicts *)

\* load_graph_requires raises ("load_error"); report_graph_error raises
\* GraphConflictError, or another graph error ("GraphError"); or neither ("ok")
ConflictOutcomes == {"load_error", "GraphConflictError", "GraphError", "ok"}

\* the entries of the conflicts dict, over all its keys
RECURSIVE entries(_)
entries(dict) ==
    IF DOMAIN dict = {} THEN 0
    ELSE LET key == CHOOSE k \in DOMAIN dict : TRUE
         IN  Len(dict[key]) + entries([k \in DOMAIN dict \ {key} |-> dict[k]])

\* what the host can answer next: at most MaxConflicts conflicts in a run
GraphAnswers ==
    IF entries(conflicts) < MaxConflicts THEN ConflictOutcomes
    ELSE ConflictOutcomes \ {"GraphConflictError"}

\* lines 133-136: the entry appended for a conflict
conflict_entry(host_profile, build_profile, cppstd) ==
    [configuration |-> <<host_profile, " - ", build_profile, " - ", cppstd>>,
     conflict |-> "str(e)"]

InitConflicts ==
    /\ pc = "gc_call"
    /\ args = EmptyDict
    /\ profile_map \in {MakeProfileMap(c) : c \in ProfileMaps({EmptyDict}, MaxProfiles)}
    /\ exported_list \in ReferenceLists
    /\ missing_packages = <<>>
    /\ references = <<>>
    /\ ri = 1
    /\ profiles = <<>>
    /\ pi = 1
    /\ ci = 1
    /\ continue_reference = TRUE
    /\ continue_group = TRUE
    /\ merged_install_graph = None
    /\ conflicts = EmptyDict
    /\ result = NoResult
    /\ files = EmptyDict
    /\ expanded = EmptyDict
    /\ recipes = <<>>
    /\ tmp = ""
    /\ local_cache = 0
    /\ ran = <<>>
    /\ evaluated = <<>>
    /\ loaded = {}

\* lines 82-90
GcStart ==
    /\ pc = "gc_call"
    /\ conflicts' = EmptyDict
    /\ references' = group_references(exported_list)
    /\ ri' = 1
    /\ pc' = "gc_reference"
    /\ UNCHANGED <<args, profile_map, exported_list, missing_packages, profiles,
                   pi, ci, continue_reference, continue_group,
                   merged_install_graph, result, files, pureVars, ran,
                   evaluated, loaded>>

\* lines 94-95
GcStartReference ==
    /\ pc = "gc_reference"
    /\ ri <= Len(references)
    /\ profiles' = conflicts_expand_profiles(references[ri], profile_map)
    /\ pi' = 1
    /\ pc' = "gc_profile"
    /\ UNCHANGED <<args, profile_map, exported_list, missing_packages,
                   references, ri, ci, continue_reference, continue_group,
                   merged_install_graph, conflicts, result, files, pureVars,
                   ran, evaluated, loaded>>

\* lines 97-108
GcStartProfile ==
    /\ pc = "gc_profile"
    /\ pi <= Len(profiles)
    /\ continue_group' = TRUE
    /\ ci' = 1
    /\ pc' = "gc_cppstd"
    /\ UNCHANGED <<args, profile_map, exported_list, missing_packages,
                   references, ri, profiles, pi, continue_reference,
                   merged_install_graph, conflicts, result, files, pureVars,
                   ran, evaluated, loaded>>

\* line 97: the profiles are exhausted
GcEndReference ==
    /\ pc = "gc_profile"
    /\ pi > Len(profiles)
    /\ ri' = ri + 1
    /\ pc' = "gc_reference"
    /\ UNCHANGED <<args, profile_map, exported_list, missing_packages,
                   references, profiles, pi, ci, continue_reference,
                   continue_group, merged_install_graph, conflicts, result,
                   files, pureVars, ran, evaluated, loaded>>

\* GcEvaluate with every error of report_graph_error recorded as a conflict
GcEvaluateAnyError ==
    /\ pc = "gc_cppstd"
    /\ ci <= Len(profiles[pi]["cppstd"])
    /\ continue_group
    /\ \E outcome \in GraphAnswers :
          LET reference == references[ri]
              host_profile == profiles[pi]["host_profile"]
              build_profile == profiles[pi]["build_profile"]
              cppstd == profiles[pi]["cppstd"][ci]
          IN  /\ loaded' =
                    IF outcome = "GraphConflictError"
                    THEN loaded \cup {[reference |-> reference,
                                       host_profile |-> host_profile,
                                       build_profile |-> build_profile,
                                       cppstd |-> cppstd]}
                    ELSE loaded
              /\ conflicts' =
                    IF outcome \in {"GraphConflictError", "GraphError"}
                    THEN setdefault_append(conflicts, str(reference),
                             conflict_entry(host_profile, build_profile, cppstd))
                    ELSE conflicts
              /\ continue_group' = (outcome = "load_error")
    /\ ci' = ci + 1
    /\ UNCHANGED <<args, profile_map, exported_list, missing_packages,
                   references, ri, profiles, pi, pc, continue_reference,
                   merged_install_graph, result, files, pureVars, ran,
                   evaluated>>

\* lines 109-140: one cppstd of the profile is evaluated
GcEvaluate ==
    /\ pc = "gc_cppstd"
    /\ ci <= Len(profiles[pi]["cppstd"])
    /\ continue_group
    /\ \E outcome \in GraphAnswers :
          LET reference == references[ri]
              host_profile == profiles[pi]["host_profile"]
              build_profile == profiles[pi]["build_profile"]
              cppstd == profiles[pi]["cppstd"][ci]
          IN  /\ loaded' =
                    IF outcome = "GraphConflictError"
                    THEN loaded \cup {[reference |-> reference,
                                       host_profile |-> host_profile,
                                       build_profile |-> build_profile,
                                       cppstd |-> cppstd]}
                    ELSE loaded
              /\ conflicts' =
                    IF outcome = "GraphConflictError"
                    THEN setdefault_append(conflicts, str(reference),
                             conflict_entry(host_profile, build_profile, cppstd))
                    ELSE conflicts
              /\ continue_group' = (outcome \in {"load_error", "GraphError"})
    /\ ci' = ci + 1
    /\ UNCHANGED <<args, profile_map, exported_list, missing_packages,
                   references, ri, profiles, pi, pc, continue_reference,
                   merged_install_graph, result, files, pureVars, ran,
                   evaluated>>

\* lines 109-111: the cppstd values are exhausted, or continue_group is off
GcEndProfile ==
    /\ pc = "gc_cppstd"
    /\ ci > Len(profiles[pi]["cppstd"]) \/ ~continue_group
    /\ pi' = pi + 1
    /\ pc' = "gc_profile"
    /\ UNCHANGED <<args, profile_map, exported_list, missing_packages,
                   references, ri, profiles, ci, continue_reference,
                   continue_group, merged_install_graph, conflicts, result,
                   files, pureVars, ran, evaluated, loaded>>

\* line 141
GcReturn ==
    /\ pc = "gc_reference"
    /\ ri > Len(references)
    /\ result' = Return(conflicts)
    /\ pc' = "done"
    /\ UNCHANGED <<args, profile_map, exported_list, missing_packages, loopVars,
                   continue_reference, continue_group, merged_install_graph,
                   conflicts, files, pureVars, ran, evaluated, loaded>>

NextConflicts ==
    \/ GcStart
    \/ GcStartReference
    \/ GcStartProfile
    \/ GcEvaluate
    \/ GcEndProfile
    \/ GcEndReference
    \/ GcReturn

SpecConflicts == InitConflicts /\ [][NextConflicts]_vars

-----------------------------------------------------------------------------
(* expand_profiles applied to every reference and profile map *)

InitExpand ==
    /\ pc = "expand"
    /\ args = EmptyDict
    /\ profile_map \in {MakeProfileMap(c) : c \in ProfileMaps(ExtraKeys, MaxExpandProfiles)}
    /\ exported_list = <<>>
    /\ missing_packages = <<>>
    /\ references \in {<<reference>> : reference \in Range(AllReferences)}
    /\ ri = 1
    /\ profiles = <<>>
    /\ pi = 1
    /\ ci = 1
    /\ continue_reference = TRUE
    /\ continue_group = TRUE
    /\ merged_install_graph = None
    /\ conflicts = EmptyDict
    /\ result = NoResult
    /\ files = EmptyDict
    /\ expanded = EmptyDict
    /\ recipes = <<>>
    /\ tmp = ""
    /\ local_cache = 0
    /\ ran = <<>>
    /\ evaluated = <<>>
    /\ loaded = {}

ExpandMissingBinaries ==
    /\ pc = "expand"
    /\ "missing_binaries" \notin DOMAIN expanded
    /\ expanded' = expanded @@
           ("missing_binaries" :> expand_profiles(references[ri], profile_map))
    /\ UNCHANGED <<pc, args, profile_map, exported_list, missing_packages,
                   loopVars, continue_reference, continue_group,
                   merged_install_graph, conflicts, result, files, recipes,
                   envVars, ran, evaluated, loaded>>

ExpandConflicts ==
    /\ pc = "expand"
    /\ "conflicts" \notin DOMAIN expanded
    /\ expanded' = expanded @@
           ("conflicts" :> conflicts_expand_profiles(references[ri], profile_map))
    /\ UNCHANGED <<pc, args, profile_map, exported_list, missing_packages,
                   loopVars, continue_reference, continue_group,
                   merged_install_graph, conflicts, result, files, recipes,
                   envVars, ran, evaluated, loaded>>

NextExpand ==
    \/ ExpandMissingBinaries
    \/ ExpandConflicts

SpecExpand == InitExpand /\ [][NextExpand]_vars

-----------------------------------------------------------------------------
(* promote_conan2 *)

\* a file name is the list of its characters' code points
FileNames == {<<97>>, <<97, 98>>, <<98>>, <<98, 97>>, <<66>>}

\* a < b on Python strings: the first differing character decides, a proper
\* prefix is smaller
RECURSIVE str_lt(_, _)
str_lt(a, b) ==
    IF b = <<>> THEN FALSE
    ELSE IF a = <<>> THEN TRUE
    ELSE IF Head(a) # Head(b) THEN Head(a) < Head(b)
    ELSE str_lt(Tail(a), Tail(b))

\* sorted(list) left out: the entries in the order os.listdir gives them
unsorted(list) == list

\* sorted(list), as an insertion sort
RECURSIVE sorted(_)
sorted(list) ==
    IF list = <<>> THEN <<>>
    ELSE LET rest == sorted(Tail(list))
             before == SelectSeq(rest, LAMBDA x : ~str_lt(Head(list), x))
             after == SelectSeq(rest, LAMBDA x : str_lt(Head(list), x))
         IN  before \o <<Head(list)>> \o after

\* os.path.join(tmp, f"{lib}.json")
pkglist_promotion_path(folder, lib) == <<folder, "/", lib, ".json">>

InitPromote ==
    /\ pc = "start"
    /\ \E listdir \in DistinctSeqs(FileNames, MaxRecipes) :
          args \in [path : {listdir}, temp_folder : {"", "promotion"}]
    /\ profile_map = <<>>
    /\ exported_list = <<>>
    /\ missing_packages = <<>>
    /\ references = <<>>
    /\ ri = 1
    /\ profiles = <<>>
    /\ pi = 1
    /\ ci = 1
    /\ continue_reference = TRUE
    /\ continue_group = TRUE
    /\ merged_install_graph = None
    /\ conflicts = EmptyDict
    /\ result = NoResult
    /\ files = EmptyDict
    /\ expanded = EmptyDict
    /\ recipes = <<>>
    /\ tmp = ""
    /\ local_cache = 0
    /\ ran = <<>>
    /\ evaluated = <<>>
    /\ loaded = {}

\* lines 14-19: the temporary folder, then the sorted entries of the folder
PromoteStart ==
    /\ pc = "start"
    /\ tmp' = IF args.temp_folder # "" THEN args.temp_folder ELSE "temp_folder()"
    /\ recipes' = sorted(args.path)
    /\ ri' = 1
    /\ pc' = "list"
    /\ UNCHANGED <<args, profile_map, exported_list, missing_packages,
                   references, profiles, pi, ci, continue_reference,
                   continue_group, merged_install_graph, conflicts, result,
                   files, expanded, local_cache, ran, evaluated, loaded>>

\* lines 20-23: the remote listing of the recipe, which the host may refuse
PromoteList ==
    /\ pc = "list"
    /\ ri <= Len(recipes)
    /\ ran' = Append(ran, <<"list", recipes[ri]>>)
    /\ \E raises \in BOOLEAN :
          IF raises
          THEN pc' = "raised" /\ result' = Raise("ConanException")
          ELSE pc' = "write" /\ UNCHANGED result
    /\ UNCHANGED <<args, profile_map, exported_list, missing_packages, loopVars,
                   continue_reference, continue_group, merged_install_graph,
                   conflicts, files, pureVars, evaluated, loaded>>

\* lines 24-26: the package list is written
PromoteWrite ==
    /\ pc = "write"
    /\ files' = (pkglist_promotion_path(tmp, recipes[ri]) :> "results") @@ files
    /\ ran' = Append(ran, <<"write", recipes[ri]>>)
    /\ pc' = "promote"
    /\ UNCHANGED <<args, profile_map, exported_list, missing_packages, loopVars,
                   continue_reference, continue_group, merged_install_graph,
                   conflicts, result, pureVars, evaluated, loaded>>

\* line 29: art:promote on the file, which the host may refuse
PromotePromote ==
    /\ pc = "promote"
    /\ ran' = Append(ran, <<"promote", recipes[ri]>>)
    /\ \E raises \in BOOLEAN :
          IF raises
          THEN pc' = "raised" /\ result' = Raise("ConanException") /\ UNCHANGED ri
          ELSE pc' = "list" /\ ri' = ri + 1 /\ UNCHANGED result
    /\ UNCHANGED <<args, profile_map, exported_list, missing_packages,
                   references, profiles, pi, ci, continue_reference,
                   continue_group, merged_install_graph, conflicts, files,
                   pureVars, evaluated, loaded>>

\* line 20: the recipes are exhausted
PromoteReturn ==
    /\ pc = "list"
    /\ ri > Len(recipes)
    /\ result' = Return("None")
    /\ pc' = "done"
    /\ UNCHANGED <<args, profile_map, exported_list, missing_packages, loopVars,
                   continue_reference, continue_group, merged_install_graph,
                   conflicts, files, pureVars, ran, evaluated, loaded>>

NextPromote ==
    \/ PromoteStart
    \/ PromoteList
    \/ PromoteWrite
    \/ PromotePromote
    \/ PromoteReturn

SpecPromote == InitPromote /\ [][NextPromote]_vars

-----------------------------------------------------------------------------
(* Properties of missing_binaries *)

Ran(step) == \E i \in DOMAIN ran : ran[i] = step

\* the profiles map holds a profile, and every profile lists a cppstd
EveryProfileListsCppstd ==
    /\ profile_map # <<>>
    /\ \A i \in DOMAIN profile_map : profile_map[i]["cppstd"] # <<>>

\* C1: run without --missing-packages on a cache that is not empty, the
\* command lists the cache and fails with ConanException; the export command
\* is not run, no graph is loaded, and neither a missing-packages result nor
\* a build-order file is produced.
C1_NonEmptyCacheFailsFirst ==
    (args.missing_packages = None /\ local_cache # 0) =>
        /\ \/ pc = "start" /\ ran = <<>> /\ result = NoResult
           \/ pc = "raised" /\ ran = <<"list">> /\ result = Raise("ConanException")
        /\ exported_list = <<>>
        /\ loaded = {}
        /\ evaluated = <<>>
        /\ missing_packages = <<>>
        /\ DOMAIN files = {}

C1_Witness ==
    /\ args.missing_packages = None
    /\ local_cache # 0
    /\ pc = "raised"
    /\ ran = <<"list">>

C3_EveryKeyContributes ==
    (/\ Ran("generate_build_order")
     /\ pc \in {"done", "raised"}
     /\ EveryProfileListsCppstd) =>
        /\ result.kind = "return"
        /\ merged_install_graph # None
        /\ BuildOrderFile \in DOMAIN files
        /\ \A i \in DOMAIN missing_packages :
              RecipeReference(split(missing_packages[i][1]))
                  \in merged_install_graph.nodes

\* C5 (on profile maps whose profiles all list a cppstd): generate_build_order
\* is invoked, and the build-order file written, exactly when the
\* missing-packages map is not empty and --generate-build-order is set; the
\* command returns the empty map when nothing is missing and the
\* missing-packages map otherwise.
C5_BuildOrderExactlyWhenRequested ==
    /\ Ran("generate_build_order") =>
          (missing_packages # <<>> /\ args.generate_build_order)
    /\ (/\ pc \in {"done", "raised"}
        /\ result # Raise("ConanException")
        /\ EveryProfileListsCppstd) =>
          /\ (Ran("generate_build_order") /\ BuildOrderFile \in DOMAIN files)
                <=> (missing_packages # <<>> /\ args.generate_build_order)
          /\ result = Return(missing_packages)

\* C6: with --missing-packages the map is the one read from the file, and
\* none of the discovery steps is performed: the cache is not listed, the
\* export command is not run, generate_missing_packages is not called.
C6_NoDiscoveryWithMissingPackagesFile ==
    args.missing_packages # None =>
        /\ ~Ran("list")
        /\ ~Ran("export")
        /\ ~Ran("generate_missing_packages")
        /\ exported_list = <<>>
        /\ loaded = {}
        /\ pc # "start" =>
              /\ Head(ran) = "open_missing_packages"
              /\ missing_packages \in MissingPackagesFiles

C6_Witness ==
    /\ args.missing_packages # None
    /\ local_cache # 0
    /\ pc = "done"
    /\ missing_packages # <<>>
    /\ result = Return(missing_packages)

\* C8: in generate_missing_packages and generate_build_order the cppstd
\* values of a profile are evaluated in their listed order, every evaluation
\* before the last one raised or gave Invalid (nothing is evaluated after the
\* first valid one), and the profile is left either after a valid evaluation
\* or with every cppstd evaluated.
C8_CppstdInOrderUntilFirstValid ==
    LET in_loop == pc \in {"gmp_cppstd", "gbo_cppstd"}
        left == pc \in {"gmp_profile", "gbo_profile"} /\ pi > 1
        cppstd_values == IF in_loop THEN profiles[pi]["cppstd"]
                         ELSE profiles[pi - 1]["cppstd"]
        failed(k) == evaluated[k][2] \in {"raise", "Invalid"}
    IN  (in_loop \/ left) =>
           /\ Len(evaluated) <= Len(cppstd_values)
           /\ \A k \in DOMAIN evaluated : evaluated[k][1] = cppstd_values[k]
           /\ \A k \in DOMAIN evaluated : k < Len(evaluated) => failed(k)
           /\ in_loop => /\ ci = Len(evaluated) + 1
                         /\ \A k \in DOMAIN evaluated : failed(k)
           /\ left => \/ Len(evaluated) = Len(cppstd_values)
                      \/ Len(evaluated) > 0 /\ ~failed(Len(evaluated))

C8_Witness ==
    /\ pc = "gmp_profile"
    /\ pi > 1
    /\ Len(profiles[pi - 1]["cppstd"]) = 2
    /\ Len(evaluated) = 1
    /\ evaluated[1][2] = "Cache"

-----------------------------------------------------------------------------
(* Properties of generate_conflicts *)

\* C4: a reference is a key of the result of generate_conflicts exactly when
\* report_graph_error raised GraphConflictError in a configuration evaluated
\* for it, and the entries under the key name the host profile, the build
\* profile and the cppstd of exactly those configurations.
C4_ConflictsAreTheReportedOnes ==
    pc = "done" =>
        /\ result.kind = "return"
        /\ DOMAIN result.value = {str(e.reference) : e \in loaded}
        /\ \A key \in DOMAIN result.value :
              \A i \in DOMAIN result.value[key] :
                 \E e \in loaded :
                    /\ str(e.reference) = key
                    /\ result.value[key][i]["configuration"] =
                          <<e.host_profile, " - ", e.build_profile, " - ", e.cppstd>>
        /\ \A e \in loaded :
              \E i \in DOMAIN result.value[str(e.reference)] :
                 result.value[str(e.reference)][i]["configuration"] =
                    <<e.host_profile, " - ", e.build_profile, " - ", e.cppstd>>

C4_Witness ==
    /\ pc = "done"
    /\ Len(exported_list) = 2
    /\ str(exported_list[1]) \in DOMAIN result.value
    /\ str(exported_list[2]) \notin DOMAIN result.value
    /\ Len(result.value[str(exported_list[1])]) = 2

-----------------------------------------------------------------------------
(* Properties of expand_profiles *)

\* the base profile with host_conf and build_conf defaulted to []
Defaulted(base) ==
    [key \in DOMAIN base \cup {"host_conf", "build_conf"} |->
        IF key \in DOMAIN base THEN base[key] ELSE <<>>]

\* the defaulted base profile with the options appended to its host_options
WithOptions(base, options) ==
    [key \in DOMAIN Defaulted(base) \cup {"host_options"} |->
        IF key = "host_options"
        THEN (IF key \in DOMAIN base THEN base[key] ELSE <<>>) \o options
        ELSE Defaulted(base)[key]]

ExpectedProfiles(base, has_shared, has_header) ==
    IF has_shared /\ ~has_header
    THEN <<WithOptions(base, <<"*:shared=True">>),
           WithOptions(base, <<"*:shared=False">>)>>
    ELSE IF ~has_shared /\ has_header
    THEN <<WithOptions(base, <<"&:header_only=True">>)>>
    ELSE IF has_shared /\ has_header
    THEN <<WithOptions(base, <<"&:header_only=False", "*:shared=True">>),
           WithOptions(base, <<"&:header_only=False", "*:shared=False">>),
           WithOptions(base, <<"&:header_only=True">>)>>
    ELSE <<Defaulted(base)>>

\* C7: for each base profile in order expand_profiles returns two profiles
\* (shared=True, shared=False) for a recipe with only a shared option, one
\* (header_only=True) for only a header_only option, three for both
\* (header_only=False with shared=True, header_only=False with shared=False,
\* header_only=True alone), and the base profile with host_conf and
\* build_conf defaulted for neither; both copies return the same list.
C7_ExpandProfilesShape ==
    LET has_shared == has_shared_option(references[1])
        has_header == has_header_option(references[1])
        k == IF has_shared /\ has_header THEN 3 ELSE IF has_shared THEN 2 ELSE 1
    IN  /\ \A copy \in DOMAIN expanded :
              /\ Len(expanded[copy]) = k * Len(profile_map)
              /\ \A i \in DOMAIN profile_map : \A j \in 1..k :
                    expanded[copy][(i - 1) * k + j] =
                        ExpectedProfiles(profile_map[i], has_shared, has_header)[j]
        /\ DOMAIN expanded = {"missing_binaries", "conflicts"} =>
              expanded["missing_binaries"] = expanded["conflicts"]

C7_Witness ==
    /\ DOMAIN expanded = {"missing_binaries", "conflicts"}
    /\ Len(profile_map) = 2
    /\ "host_options" \in DOMAIN profile_map[1]
    /\ "host_conf" \in DOMAIN profile_map[2]
    /\ has_shared_option(references[1])
    /\ has_header_option(references[1])
    /\ Len(expanded["conflicts"]) = 6

-----------------------------------------------------------------------------
(* Properties of promote_conan2 *)

\* list, write, promote for each recipe, one recipe after the other
RECURSIVE ListWritePromote(_)
ListWritePromote(libs) ==
    IF libs = <<>> THEN <<>>
    ELSE <<<<"list", Head(libs)>>, <<"write", Head(libs)>>, <<"promote", Head(libs)>>>>
         \o ListWritePromote(Tail(libs))

\* C9: the entries of the recipes folder are processed in sorted name order;
\* for each the remote listing comes first, then the package-list file is
\* written, then art:promote runs on it, and the next recipe starts only
\* after that; a promotion never starts before its file is written.
C9_SortedListWritePromote ==
    pc # "start" =>
        /\ Range(recipes) = Range(args.path)
        /\ Len(recipes) = Len(args.path)
        /\ \A i, j \in DOMAIN recipes : i < j => str_lt(recipes[i], recipes[j])
        /\ Len(ran) <= 3 * Len(recipes)
        /\ ran = SubSeq(ListWritePromote(recipes), 1, Len(ran))
        /\ \A k \in DOMAIN ran :
              ran[k][1] = "promote" =>
                 pkglist_promotion_path(tmp, ran[k][2]) \in DOMAIN files
        /\ pc = "done" => ran = ListWritePromote(recipes)

C9_Witness ==
    /\ pc = "done"
    /\ Len(recipes) = 3
    /\ args.path # recipes
    /\ Len(ran) = 9

=============================================================================
